---- MODULE Spec2Model ----
(***************************************************************************)
(* Order -> Route -> Delivery lifecycle of the soya_excel backend.         *)
(*                                                                         *)
(* Quantities are whole tonnes.  A nullable timestamp or foreign key is 0  *)
(* when null; a nullable user or text field is "none" / "" when null.      *)
(* Rows are never deleted, so every table is a sequence and a row's        *)
(* primary key is its position.                                            *)
(***************************************************************************)
EXTENDS Integers, Sequences, FiniteSets, TLC

(* ------------------------------ bounds -------------------------------- *)
MaxOrders == 1
MaxRoutes == 2
MaxStops == 2
MaxDeliveries == 1
MaxClock == 2
MaxStored == 45
MaxKPIs == 2

(* ------------------------- program constants -------------------------- *)
LargeOrderThreshold == 10

(* --------------------------- fixed test data -------------------------- *)
\* Farmer "f1": priority medium, owns a feed storage; "f2": priority high,
\* no feed storage row.
Farmers == {"f1", "f2"}
FarmerPriorities == {"medium", "high"}
HasFeedStorage(f) == f = "f1"
\* Farmer.latitude in whole degrees as the sort key of optimize reads it:
\* "f2" has no latitude, which counts as 0.
LatitudeOrZero(f) == IF f = "f1" THEN 45 ELSE 0
Capacity == 40
\* capacity_tonnes of the bulk trucks.
VehicleCapacity == 38

Users == {"u1", "u2"}
Weeks == {"", "2024-W45"}
Quantities == {0, 10, 20}
SensorReadings == {-1, 45}
OrderTypes == {"on_demand", "emergency"}
RequestedPriorities == {"low"}
DeliveredQuantities == {-1, 10}
SensorTimestamps == 1..MaxClock
Distances == {0, 100}
METRIC_TYPE_CHOICES == {"km_per_tonne_oil"}
PERIOD_TYPE_CHOICES == {"weekly", "monthly"}
Periods == {[period_start |-> 1, period_end |-> 2]}
MetricValues == {12, 13, 14}

STATUS_CHOICES == {"pending", "confirmed", "planned", "in_transit", "delivered", "cancelled"}
ROUTE_STATUS_CHOICES == {"draft", "planned", "active", "completed", "cancelled", "delayed"}

VARIABLES orders, current_quantity, routes, stops, deliveries, now, last,
          inflight, kpis, farmer_priority

vars == <<orders, current_quantity, routes, stops, deliveries, now, last,
          inflight, kpis, farmer_priority>>

\* Farmer.priority
FarmerPriority(f) == farmer_priority[f]

OrderIds == 1..Len(orders)
RouteIds == 1..Len(routes)
StopIds == 1..Len(stops)
DeliveryIds == 1..Len(deliveries)

\* Request handlers run in concurrent workers.  inflight[w] is the request
\* worker w is in the middle of: its position, the order it read as a
\* one-element sequence and the storage quantity it read.
Workers == {"w1", "w2"}
Idle == [pc |-> "idle", id |-> 0, new_status |-> "", order |-> <<>>, storage |-> 0]

Response(op, id, ok, arg, n) == [op |-> op, id |-> id, ok |-> ok, arg |-> arg, n |-> n]

(* ------------------------------ Order --------------------------------- *)
\* Order.save without the farmer-priority clause of the approval rule.
Save_WithoutFarmerRule(o) ==
    LET p == IF o.order_type = "emergency" THEN "urgent"
             ELSE IF FarmerPriority(o.farmer) = "high" THEN "high"
             ELSE o.priority
        ra == IF o.quantity > LargeOrderThreshold \/ o.order_type = "emergency"
              THEN TRUE ELSE o.requires_approval
    IN [o EXCEPT !.priority = p, !.requires_approval = ra]

\* Order.save: priority and requires_approval are recomputed on every save.
Save(o) ==
    LET p == IF o.order_type = "emergency" THEN "urgent"
             ELSE IF FarmerPriority(o.farmer) = "high" THEN "high"
             ELSE o.priority
        ra == IF o.quantity > LargeOrderThreshold
                 \/ o.order_type = "emergency"
                 \/ FarmerPriority(o.farmer) = "high"
              THEN TRUE ELSE o.requires_approval
    IN [o EXCEPT !.priority = p, !.requires_approval = ra]

\* Order.clean: TRUE when clean() raises ValidationError.
CleanRaises(o) ==
    \/ o.quantity <= 0
    \/ HasFeedStorage(o.farmer) /\ current_quantity + o.quantity > Capacity

\* can_be_confirmed without the approval check.
can_be_confirmed_IgnoresApproval(o) == o.status = "pending"

\* Order.can_be_confirmed
can_be_confirmed(o) == o.status = "pending" /\ ~o.requires_approval

\* Order.can_be_planned
can_be_planned(o) == o.status \in {"confirmed", "pending"} /\ ~o.requires_approval

Init ==
    /\ orders = <<>>
    /\ current_quantity = 35
    /\ routes = <<>>
    /\ stops = <<>>
    /\ deliveries = <<>>
    /\ now = 1
    /\ last = Response("init", 0, TRUE, "", 0)
    /\ inflight = [w \in Workers |-> Idle]
    /\ kpis = <<>>
    /\ farmer_priority = [f \in Farmers |-> IF f = "f2" THEN "high" ELSE "medium"]

\* The wall clock read by timezone.now() advances between requests.
Tick ==
    /\ now < MaxClock
    /\ now' = now + 1
    /\ UNCHANGED <<orders, current_quantity, routes, stops, deliveries, last, inflight, kpis, farmer_priority>>

\* POST /orders/: OrderSerializer.validate, OrderSerializer.create,
\* Order.save, OrderViewSet.perform_create.
CreateOrder(f, q, t, p, ra) ==
    /\ Len(orders) < MaxOrders
    /\ IF q <= 0
       THEN /\ last' = Response("create", 0, FALSE, "", q)
            /\ UNCHANGED orders
       ELSE /\ orders' = Append(orders,
                    Save([farmer |-> f, quantity |-> q, order_type |-> t,
                          priority |-> p, status |-> "pending",
                          requires_approval |-> ra, approved_by |-> "none",
                          approved_at |-> 0, planning_week |-> "",
                          assigned_route |-> 0, actual_delivery_date |-> 0]))
            /\ last' = Response("create", Len(orders) + 1, TRUE, "", q)
    /\ UNCHANGED <<current_quantity, routes, stops, deliveries, now, inflight, kpis, farmer_priority>>

\* OrderViewSet._handle_status_transition, line 150: the transition that
\* credits the farmer's storage.
TransitionCredits(o, old_status) ==
    o.status = "delivered" /\ old_status # "delivered"

\* OrderViewSet._handle_status_transition: the order it stores.
OrderAfterTransition(o, old_status) ==
    IF TransitionCredits(o, old_status)
    THEN Save([o EXCEPT !.actual_delivery_date = now])
    ELSE o

\* OrderViewSet._handle_status_transition: the storage quantity it stores.
StorageAfterTransition(o, old_status) ==
    IF TransitionCredits(o, old_status) /\ HasFeedStorage(o.farmer)
    THEN current_quantity + o.quantity
    ELSE current_quantity

\* approve_order whose cleared flag is stored as it is.
approve_order_KeepsFlagCleared(o, user) ==
    [o EXCEPT !.requires_approval = FALSE, !.approved_by = user,
              !.approved_at = now]


\* Order.approve_order
approve_order(o, user) ==
    Save([o EXCEPT !.requires_approval = FALSE, !.approved_by = user,
                   !.approved_at = now])

\* Order.confirm_order
confirm_order(o) == Save([o EXCEPT !.status = "confirmed"])

\* Order.plan_order
plan_order(o, planning_week) ==
    Save([o EXCEPT !.status = "planned", !.planning_week = planning_week])

\* assign_to_route leaving the status of a delivered order alone.
assign_to_route_UnlessDelivered(o, route) ==
    IF o.status = "delivered"
    THEN Save([o EXCEPT !.assigned_route = route])
    ELSE Save([o EXCEPT !.assigned_route = route, !.status = "planned"])

\* Order.assign_to_route (driver and vehicle are not passed)
assign_to_route(o, route) ==
    Save([o EXCEPT !.assigned_route = route, !.status = "planned"])

\* POST /orders/{id}/approve/
Approve(id, user) ==
    /\ IF ~orders[id].requires_approval
       THEN /\ last' = Response("approve", id, FALSE, user, 0)
            /\ UNCHANGED orders
       ELSE /\ orders' = [orders EXCEPT ![id] = approve_order(@, user)]
            /\ last' = Response("approve", id, TRUE, user, 0)
    /\ UNCHANGED <<current_quantity, routes, stops, deliveries, now, inflight, kpis, farmer_priority>>

\* POST /orders/{id}/confirm/
Confirm(id) ==
    /\ IF ~can_be_confirmed(orders[id])
       THEN /\ last' = Response("confirm", id, FALSE, "", 0)
            /\ UNCHANGED orders
       ELSE /\ orders' = [orders EXCEPT ![id] = confirm_order(@)]
            /\ last' = Response("confirm", id, TRUE, "", 0)
    /\ UNCHANGED <<current_quantity, routes, stops, deliveries, now, inflight, kpis, farmer_priority>>

\* POST /orders/{id}/plan/ ; planning_week = "" is a request without one.
Plan(id, planning_week) ==
    /\ IF planning_week = "" \/ ~can_be_planned(orders[id])
       THEN /\ last' = Response("plan", id, FALSE, planning_week, 0)
            /\ UNCHANGED orders
       ELSE /\ orders' = [orders EXCEPT ![id] = plan_order(@, planning_week)]
            /\ last' = Response("plan", id, TRUE, planning_week, 0)
    /\ UNCHANGED <<current_quantity, routes, stops, deliveries, now, inflight, kpis, farmer_priority>>

\* POST /orders/{id}/assign_route/ ; route_id = 0 is a request without one,
\* a route_id beyond the table raises Route.DoesNotExist.
AssignRoute(id, route_id) ==
    /\ IF route_id = 0 \/ route_id \notin RouteIds
       THEN /\ last' = Response("assign_route", id, FALSE, "", route_id)
            /\ UNCHANGED orders
       ELSE /\ orders' = [orders EXCEPT ![id] = assign_to_route(@, route_id)]
            /\ last' = Response("assign_route", id, TRUE, "", route_id)
    /\ UNCHANGED <<current_quantity, routes, stops, deliveries, now, inflight, kpis, farmer_priority>>

\* POST /orders/{id}/update_status/
UpdateStatus(id, new_status) ==
    IF new_status \notin STATUS_CHOICES
    THEN /\ last' = Response("update_status", id, FALSE, new_status, 0)
         /\ UNCHANGED <<orders, current_quantity, routes, stops, deliveries, now, inflight, kpis, farmer_priority>>
    ELSE LET old_status == orders[id].status
             saved == Save([orders[id] EXCEPT
                        !.status = new_status,
                        !.actual_delivery_date =
                            IF new_status = "delivered" THEN now ELSE @])
         IN /\ StorageAfterTransition(saved, old_status) <= MaxStored
            /\ orders' = [orders EXCEPT ![id] = OrderAfterTransition(saved, old_status)]
            /\ current_quantity' = StorageAfterTransition(saved, old_status)
            /\ last' = Response("update_status", id, TRUE, new_status, 0)
            /\ UNCHANGED <<routes, stops, deliveries, now, inflight, kpis, farmer_priority>>

\* update_status run by a worker, statement by statement.  First
\* get_object(): the worker holds its own copy of the order row.
UpdateStatusRead(w, id, new_status) ==
    /\ inflight[w].pc = "idle"
    /\ IF new_status \notin STATUS_CHOICES
       THEN /\ last' = Response("update_status", id, FALSE, new_status, 0)
            /\ UNCHANGED inflight
       ELSE /\ inflight' = [inflight EXCEPT ![w] =
                    [pc |-> "read", id |-> id, new_status |-> new_status,
                     order |-> <<orders[id]>>, storage |-> 0]]
            /\ UNCHANGED last
    /\ UNCHANGED <<orders, current_quantity, routes, stops, deliveries, now, kpis, farmer_priority>>

\* Then order.save() writes the whole row from the worker's copy, and
\* _handle_status_transition saves it again and reads the farmer's storage.
UpdateStatusSave(w) ==
    LET r == inflight[w]
        old_status == r.order[1].status
        saved == Save([r.order[1] EXCEPT
                    !.status = r.new_status,
                    !.actual_delivery_date =
                        IF r.new_status = "delivered" THEN now ELSE @])
        after == OrderAfterTransition(saved, old_status)
    IN /\ r.pc = "read"
       /\ orders' = [orders EXCEPT ![r.id] = after]
       /\ IF TransitionCredits(saved, old_status) /\ HasFeedStorage(saved.farmer)
          THEN /\ inflight' = [inflight EXCEPT ![w] =
                      [r EXCEPT !.pc = "credit", !.order = <<after>>,
                                !.storage = current_quantity]]
               /\ UNCHANGED last
          ELSE /\ inflight' = [inflight EXCEPT ![w] = Idle]
               /\ last' = Response("update_status", r.id, TRUE, r.new_status, 0)
       /\ UNCHANGED <<current_quantity, routes, stops, deliveries, now, kpis, farmer_priority>>

\* Last storage.save() writes the quantity the worker read plus the order's.
UpdateStatusCredit(w) ==
    LET r == inflight[w]
    IN /\ r.pc = "credit"
       /\ r.storage + r.order[1].quantity <= MaxStored
       /\ current_quantity' = r.storage + r.order[1].quantity
       /\ inflight' = [inflight EXCEPT ![w] = Idle]
       /\ last' = Response("update_status", r.id, TRUE, r.new_status, 0)
       /\ UNCHANGED <<orders, routes, stops, deliveries, now, kpis, farmer_priority>>

\* PATCH /orders/{id}/ with a status: OrderViewSet.perform_update
OrderUpdate(id, new_status) ==
    LET old_status == orders[id].status
        saved == Save([orders[id] EXCEPT !.status = new_status])
        after == IF old_status # saved.status
                 THEN OrderAfterTransition(saved, old_status) ELSE saved
        stored == IF old_status # saved.status
                  THEN StorageAfterTransition(saved, old_status)
                  ELSE current_quantity
    IN /\ stored <= MaxStored
       /\ orders' = [orders EXCEPT ![id] = after]
       /\ current_quantity' = stored
       /\ last' = Response("update", id, TRUE, new_status, 0)
       /\ UNCHANGED <<routes, stops, deliveries, now, inflight, kpis, farmer_priority>>

\* POST /feed-storage/{id}/update_quantity/ with a current_quantity
UpdateQuantity(quantity) ==
    /\ current_quantity' = quantity
    /\ last' = Response("update_quantity", 1, TRUE, "", quantity)
    /\ UNCHANGED <<orders, routes, stops, deliveries, now, inflight, kpis, farmer_priority>>

\* POST /feed-storage/{id}/update_quantity/ without a current_quantity
UpdateQuantityMissing ==
    /\ last' = Response("update_quantity", 1, FALSE, "", 0)
    /\ UNCHANGED <<orders, current_quantity, routes, stops, deliveries, now, inflight, kpis, farmer_priority>>

\* POST /iot/sensor-data of the sensor service: it looks the storage up in
\* the Django API and posts the reading's current_quantity, and nothing
\* else, to update_quantity.  accepted is whether the Django API answered
\* both calls with 200; otherwise the service answers an error and nothing
\* is written.  The response records the reading's timestamp.
receive_sensor_data(quantity, timestamp, accepted) ==
    /\ current_quantity' = IF accepted THEN quantity ELSE current_quantity
    /\ last' = Response("sensor_data", 1, accepted, "", timestamp)
    /\ UNCHANGED <<orders, routes, stops, deliveries, now, inflight, kpis, farmer_priority>>

(* --------------------------- Route, RouteStop -------------------------- *)
\* The stops of a request body whose farmer and planned quantity are those
\* of the stop's order; the stops are numbered from 1 in the listed order.
StopData(a) ==
    [order |-> a, farmer |-> orders[a].farmer,
     quantity_to_deliver |-> orders[a].quantity]

StopLists ==
    {<<>>} \cup {<<StopData(a)>> : a \in OrderIds}
           \cup {<<StopData(a), StopData(b)>> : a, b \in OrderIds}

\* Request bodies of at least two stops whose farmer is any farmer: the
\* serializer takes each stop as a free dictionary.
AnyFarmerStops ==
    {[StopData(a) EXCEPT !.farmer = f] : a \in OrderIds, f \in Farmers}

AnyFarmerStopLists ==
    UNION {[1..n -> AnyFarmerStops] : n \in 2..MaxStops}

\* RouteCreateSerializer.create numbering the stops from 0.
NewStops_NumberedFromZero(route_id, stops_data) ==
    [index \in 1..Len(stops_data) |->
        [route |-> route_id, order |-> stops_data[index].order,
         farmer |-> stops_data[index].farmer,
         quantity_to_deliver |-> stops_data[index].quantity_to_deliver,
         has_quantity_delivered |-> FALSE, quantity_delivered |-> 0,
         sequence_number |-> index - 1, is_completed |-> FALSE,
         actual_arrival_time |-> 0]]

\* RouteCreateSerializer.create: the RouteStop rows of a new route.
\* quantity_delivered is null while has_quantity_delivered is false.
NewStops(route_id, stops_data) ==
    [index \in 1..Len(stops_data) |->
        [route |-> route_id, order |-> stops_data[index].order,
         farmer |-> stops_data[index].farmer,
         quantity_to_deliver |-> stops_data[index].quantity_to_deliver,
         has_quantity_delivered |-> FALSE, quantity_delivered |-> 0,
         sequence_number |-> index, is_completed |-> FALSE,
         actual_arrival_time |-> 0]]

\* POST /routes/: a Route in the default status with its stops.
CreateRoute(stops_data) ==
    /\ Len(routes) < MaxRoutes
    /\ Len(stops) + Len(stops_data) <= MaxStops
    /\ routes' = Append(routes, [status |-> "draft", optimized_sequence |-> <<>>])
    /\ stops' = stops \o NewStops(Len(routes) + 1, stops_data)
    /\ last' = Response("create_route", Len(routes) + 1, TRUE, "", 0)
    /\ UNCHANGED <<orders, current_quantity, deliveries, now, inflight, kpis, farmer_priority>>

\* activate that cancels a route it refuses to activate.
ActivateRoute_CancelsWhenRefused(id) ==
    /\ IF routes[id].status \notin {"draft", "planned"}
       THEN /\ last' = Response("activate", id, FALSE, "", 0)
            /\ routes' = [routes EXCEPT ![id].status = "cancelled"]
       ELSE /\ routes' = [routes EXCEPT ![id].status = "active"]
            /\ last' = Response("activate", id, TRUE, "", 0)
    /\ UNCHANGED <<orders, current_quantity, stops, deliveries, now, inflight, kpis, farmer_priority>>

\* POST /routes/{id}/activate/
ActivateRoute(id) ==
    /\ IF routes[id].status \notin {"draft", "planned"}
       THEN /\ last' = Response("activate", id, FALSE, "", 0)
            /\ UNCHANGED routes
       ELSE /\ routes' = [routes EXCEPT ![id].status = "active"]
            /\ last' = Response("activate", id, TRUE, "", 0)
    /\ UNCHANGED <<orders, current_quantity, stops, deliveries, now, inflight, kpis, farmer_priority>>

\* complete on a route that also delivers the orders of the route's stops.
CompleteRoute_DeliversOrders(id) ==
    /\ IF routes[id].status # "active"
       THEN /\ last' = Response("complete_route", id, FALSE, "", 0)
            /\ UNCHANGED <<routes, stops, orders, farmer_priority>>
       ELSE /\ routes' = [routes EXCEPT ![id].status = "completed"]
            /\ stops' = [s \in StopIds |->
                            IF stops[s].route = id
                            THEN [stops[s] EXCEPT !.is_completed = TRUE]
                            ELSE stops[s]]
            /\ orders' = [o \in OrderIds |->
                            IF \E s \in StopIds : stops[s].route = id /\ stops[s].order = o
                            THEN Save([orders[o] EXCEPT !.status = "delivered"])
                            ELSE orders[o]]
            /\ last' = Response("complete_route", id, TRUE, "", 0)
    /\ UNCHANGED <<current_quantity, deliveries, now, inflight, kpis, farmer_priority>>

\* POST /routes/{id}/complete/
CompleteRoute(id) ==
    /\ IF routes[id].status # "active"
       THEN /\ last' = Response("complete_route", id, FALSE, "", 0)
            /\ UNCHANGED <<routes, stops, farmer_priority>>
       ELSE /\ routes' = [routes EXCEPT ![id].status = "completed"]
            /\ stops' = [s \in StopIds |->
                            IF stops[s].route = id
                            THEN [stops[s] EXCEPT !.is_completed = TRUE]
                            ELSE stops[s]]
            /\ last' = Response("complete_route", id, TRUE, "", 0)
    /\ UNCHANGED <<orders, current_quantity, deliveries, now, inflight, kpis, farmer_priority>>

\* POST /route-stops/{id}/complete/
CompleteStop(id) ==
    /\ stops' = [stops EXCEPT ![id].is_completed = TRUE,
                              ![id].actual_arrival_time = now]
    /\ orders' = [orders EXCEPT ![stops[id].order] =
                    Save([@ EXCEPT !.status = "delivered",
                                   !.actual_delivery_date = now])]
    /\ last' = Response("complete_stop", id, TRUE, "", 0)
    /\ UNCHANGED <<current_quantity, routes, deliveries, now, inflight, kpis, farmer_priority>>

\* PATCH /routes/{id}/ with a status: the generic update of RouteViewSet
\* through RouteSerializer, whose status field is writable.
RouteUpdate(id, new_status) ==
    /\ IF new_status \notin ROUTE_STATUS_CHOICES
       THEN /\ last' = Response("update_route", id, FALSE, new_status, 0)
            /\ UNCHANGED routes
       ELSE /\ routes' = [routes EXCEPT ![id].status = new_status]
            /\ last' = Response("update_route", id, TRUE, new_status, 0)
    /\ UNCHANGED <<orders, current_quantity, stops, deliveries, now, inflight, kpis, farmer_priority>>

\* PATCH /stops/{id}/ with a quantity_delivered: the generic update of
\* RouteStopViewSet through RouteStopSerializer.
StopUpdate(id, quantity_delivered) ==
    /\ stops' = [stops EXCEPT ![id].has_quantity_delivered = TRUE,
                              ![id].quantity_delivered = quantity_delivered]
    /\ last' = Response("update_stop", id, TRUE, "", quantity_delivered)
    /\ UNCHANGED <<orders, current_quantity, routes, deliveries, now, inflight, kpis, farmer_priority>>

\* route.stops.all(): the stops of a route in Meta.ordering, that is by
\* sequence_number.
RECURSIVE BySequenceNumber(_)
BySequenceNumber(S) ==
    IF S = {} THEN <<>>
    ELSE LET first == CHOOSE s \in S :
                        \A t \in S : stops[s].sequence_number <= stops[t].sequence_number
         IN <<first>> \o BySequenceNumber(S \ {first})

RouteStops(id) == BySequenceNumber({s \in StopIds : stops[s].route = id})

\* list.sort(key=farmer latitude or 0): a stable sort, an element goes
\* behind every element whose key is not larger.
RECURSIVE SortedByLatitude(_)
SortedByLatitude(list) ==
    IF list = <<>> THEN <<>>
    ELSE LET n == Len(list)
             head == SortedByLatitude(SubSeq(list, 1, n - 1))
             key(s) == LatitudeOrZero(stops[s].farmer)
             keep == Cardinality({i \in 1..Len(head) : key(head[i]) <= key(list[n])})
         IN SubSeq(head, 1, keep) \o <<list[n]>> \o SubSeq(head, keep + 1, Len(head))

\* The loop of optimize from position i: each stop is saved with its new
\* sequence_number; a save that meets another stop of the route holding that
\* number violates unique_together and raises, the earlier saves stay.
RECURSIVE Renumber(_, _, _)
Renumber(table, sorted, i) ==
    IF i > Len(sorted) THEN [stops |-> table, ok |-> TRUE]
    ELSE LET s == sorted[i]
             taken == \E t \in DOMAIN table :
                         /\ t # s
                         /\ table[t].route = table[s].route
                         /\ table[t].sequence_number = i
         IN IF taken THEN [stops |-> table, ok |-> FALSE]
            ELSE Renumber([table EXCEPT ![s].sequence_number = i], sorted, i + 1)

\* POST /routes/{id}/optimize/
Optimize(id) ==
    LET sorted == SortedByLatitude(RouteStops(id))
        result == Renumber(stops, sorted, 1)
    IN /\ IF Len(sorted) <= 1
          THEN /\ last' = Response("optimize", id, FALSE, "too_few", Len(sorted))
               /\ UNCHANGED <<routes, stops, farmer_priority>>
          ELSE /\ stops' = result.stops
               /\ IF result.ok
                  THEN /\ routes' = [routes EXCEPT ![id].optimized_sequence = sorted]
                       /\ last' = Response("optimize", id, TRUE, "", Len(sorted))
                  ELSE /\ last' = Response("optimize", id, FALSE, "error", Len(sorted))
                       /\ UNCHANGED routes
       /\ UNCHANGED <<orders, current_quantity, deliveries, now, inflight, kpis, farmer_priority>>

(* ------------------------ Delivery, DeliveryItem ----------------------- *)
\* POST /deliveries/: DeliveryCreateSerializer.create.  Each item is the
\* free dictionary of one order; recorded tells whether the dictionaries
\* carry a quantity_delivered (the order's quantity) or leave it null.
CreateDelivery(route_id, item_orders, recorded) ==
    /\ Len(deliveries) < MaxDeliveries
    /\ deliveries' = Append(deliveries,
            [route |-> route_id, status |-> "assigned", items |-> item_orders,
             items_recorded |-> recorded, total_quantity_delivered |-> 0,
             actual_distance_km |-> 0])
    /\ last' = Response("create_delivery", Len(deliveries) + 1, TRUE, "", 0)
    /\ UNCHANGED <<orders, current_quantity, routes, stops, now, inflight, kpis, farmer_priority>>

\* POST /deliveries/{id}/start_delivery/
StartDelivery(id) ==
    /\ IF deliveries[id].status # "assigned"
       THEN /\ last' = Response("start_delivery", id, FALSE, "", 0)
            /\ UNCHANGED deliveries
       ELSE /\ deliveries' = [deliveries EXCEPT ![id].status = "in_progress"]
            /\ last' = Response("start_delivery", id, TRUE, "", 0)
    /\ UNCHANGED <<orders, current_quantity, routes, stops, now, inflight, kpis, farmer_priority>>

\* sum(float(item.quantity_delivered or 0) for item in delivery.items.all())
RECURSIVE ItemsQuantity(_, _)
ItemsQuantity(d, S) ==
    IF S = {} THEN 0
    ELSE LET o == CHOOSE x \in S : TRUE
         IN (IF d.items_recorded THEN orders[o].quantity ELSE 0)
            + ItemsQuantity(d, S \ {o})

\* POST /deliveries/{id}/complete_delivery/ ; actual_distance_km = 0 is a
\* request without one.
CompleteDelivery(id, actual_distance_km) ==
    /\ IF deliveries[id].status # "in_progress"
       THEN /\ last' = Response("complete_delivery", id, FALSE, "", 0)
            /\ UNCHANGED <<deliveries, orders, farmer_priority>>
       ELSE /\ deliveries' = [deliveries EXCEPT
                    ![id].status = "completed",
                    ![id].total_quantity_delivered =
                        ItemsQuantity(deliveries[id], deliveries[id].items),
                    ![id].actual_distance_km =
                        IF actual_distance_km # 0 THEN actual_distance_km ELSE @]
            /\ orders' = [o \in OrderIds |->
                            IF o \in deliveries[id].items
                            THEN Save([orders[o] EXCEPT
                                        !.status = "delivered",
                                        !.actual_delivery_date = now])
                            ELSE orders[o]]
            /\ last' = Response("complete_delivery", id, TRUE, "", 0)
    /\ UNCHANGED <<current_quantity, routes, stops, now, inflight, kpis, farmer_priority>>

\* Delivery.km_per_tonne: the quotient of two floats when both fields are
\* truthy, otherwise the number 0; it never returns None.  The distances
\* and quantities of the model divide evenly.
km_per_tonne(d) ==
    IF d.total_quantity_delivered # 0 /\ d.actual_distance_km # 0
    THEN [kind |-> "number", value |-> d.actual_distance_km \div d.total_quantity_delivered]
    ELSE [kind |-> "number", value |-> 0]

\* GET /deliveries/{id}/ : DeliverySerializer renders km_per_tonne.
RetrieveDelivery(id) ==
    /\ last' = Response("km_per_tonne", id, TRUE, km_per_tonne(deliveries[id]).kind,
                        km_per_tonne(deliveries[id]).value)
    /\ UNCHANGED <<orders, current_quantity, routes, stops, deliveries, now, inflight, kpis, farmer_priority>>

(* ------------------------------- farmers ------------------------------- *)
\* PATCH /farmers/{id}/ : priority is a writable field of FarmerSerializer;
\* the farmer's orders are not saved.
UpdateFarmer(f, priority) ==
    /\ farmer_priority' = [farmer_priority EXCEPT ![f] = priority]
    /\ last' = Response("update_farmer", 0, TRUE, priority, 0)
    /\ UNCHANGED <<orders, current_quantity, routes, stops, deliveries, now, inflight, kpis>>

(* ------------------------------ KPI records ---------------------------- *)
KPIIds == 1..Len(kpis)

\* KPIMetrics.Meta.unique_together.
KPIKey(k) == <<k.metric_type, k.period_type, k.period_start, k.period_end>>

KPIData ==
    [metric_type : METRIC_TYPE_CHOICES, period_type : PERIOD_TYPE_CHOICES,
     period_start : {p.period_start : p \in Periods},
     period_end : {p.period_end : p \in Periods},
     metric_value : MetricValues]

\* The uniqueness validator the serializer derives from unique_together:
\* a row other than the one being written already carries the key.
KeyTaken(data, except) ==
    \E i \in KPIIds : i # except /\ KPIKey(kpis[i]) = KPIKey(data)

\* The same request without the validator and the constraint behind it.
CreateKPI_WithoutUniqueTogether(data) ==
    /\ Len(kpis) < MaxKPIs
    /\ kpis' = Append(kpis, data)
    /\ last' = Response("create_kpi", 0, TRUE, data.period_type, data.metric_value)
    /\ UNCHANGED <<orders, current_quantity, routes, stops, deliveries, now, inflight, farmer_priority>>

\* POST /kpi-metrics/ : the value of a metric for a period is recorded.
CreateKPI(data) ==
    /\ Len(kpis) < MaxKPIs
    /\ IF KeyTaken(data, 0)
       THEN /\ kpis' = kpis
            /\ last' = Response("create_kpi", 0, FALSE, data.period_type, data.metric_value)
       ELSE /\ kpis' = Append(kpis, data)
            /\ last' = Response("create_kpi", 0, TRUE, data.period_type, data.metric_value)
    /\ UNCHANGED <<orders, current_quantity, routes, stops, deliveries, now, inflight, farmer_priority>>

\* PUT /kpi-metrics/{id}/ : the record is overwritten with the request's data.
UpdateKPI(id, data) ==
    /\ IF KeyTaken(data, id)
       THEN /\ kpis' = kpis
            /\ last' = Response("update_kpi", id, FALSE, data.period_type, data.metric_value)
       ELSE /\ kpis' = [kpis EXCEPT ![id] = data]
            /\ last' = Response("update_kpi", id, TRUE, data.period_type, data.metric_value)
    /\ UNCHANGED <<orders, current_quantity, routes, stops, deliveries, now, inflight, farmer_priority>>

(* ----------------------- requests, inputs bound ------------------------ *)
DoCreateOrder ==
    \E f \in Farmers, q \in Quantities, t \in OrderTypes,
       p \in RequestedPriorities, ra \in BOOLEAN : CreateOrder(f, q, t, p, ra)
DoApprove == \E id \in OrderIds, user \in Users : Approve(id, user)
DoApproveAsFirstUser == \E id \in OrderIds : Approve(id, "u1")
DoConfirm == \E id \in OrderIds : Confirm(id)
DoPlan == \E id \in OrderIds, w \in Weeks : Plan(id, w)
DoAssignRoute == \E id \in OrderIds, r \in 0..MaxRoutes : AssignRoute(id, r)
DoUpdateStatus ==
    \E id \in OrderIds, s \in STATUS_CHOICES \cup {"bogus"} : UpdateStatus(id, s)
DoUpdateStatusRead ==
    \E w \in Workers, id \in OrderIds, s \in STATUS_CHOICES \cup {"bogus"} :
        UpdateStatusRead(w, id, s)
DoUpdateStatusSave == \E w \in Workers : UpdateStatusSave(w)
DoUpdateStatusCredit == \E w \in Workers : UpdateStatusCredit(w)
DoOrderUpdate == \E id \in OrderIds, s \in STATUS_CHOICES : OrderUpdate(id, s)
DoUpdateQuantity == \E q \in SensorReadings : UpdateQuantity(q)
DoReceiveSensorData ==
    \E q \in SensorReadings, t \in SensorTimestamps, accepted \in BOOLEAN :
        receive_sensor_data(q, t, accepted)
DoCreateStandardOrder ==
    \E f \in Farmers : CreateOrder(f, LargeOrderThreshold, "on_demand", "low", FALSE)
DoDeliver == \E id \in OrderIds : UpdateStatus(id, "delivered")
DoCreateEmptyRoute == CreateRoute(<<>>)
DoCreateRoute == \E l \in StopLists : CreateRoute(l)
DoCreateRouteAnyFarmer == \E l \in AnyFarmerStopLists : CreateRoute(l)
DoActivateRoute == \E id \in RouteIds : ActivateRoute(id)
DoCompleteRoute == \E id \in RouteIds : CompleteRoute(id)
DoCompleteStop == \E id \in StopIds : CompleteStop(id)
DoRouteUpdate ==
    \E id \in RouteIds, s \in ROUTE_STATUS_CHOICES \cup {"bogus"} : RouteUpdate(id, s)
DoStopUpdate == \E id \in StopIds, q \in DeliveredQuantities : StopUpdate(id, q)
DoOptimize == \E id \in RouteIds : Optimize(id)
DoCreateDelivery ==
    \E r \in RouteIds, items \in SUBSET OrderIds : CreateDelivery(r, items, FALSE)
DoCreateRecordedDelivery ==
    \E r \in RouteIds, items \in SUBSET OrderIds, recorded \in BOOLEAN :
        CreateDelivery(r, items, recorded)
DoStartDelivery == \E id \in DeliveryIds : StartDelivery(id)
DoCompleteDelivery == \E id \in DeliveryIds : CompleteDelivery(id, 0)
DoCompleteMeasuredDelivery ==
    \E id \in DeliveryIds, km \in Distances : CompleteDelivery(id, km)
DoRetrieveDelivery == \E id \in DeliveryIds : RetrieveDelivery(id)
DoUpdateFarmer == \E f \in Farmers, p \in FarmerPriorities : UpdateFarmer(f, p)
DoPromoteFarmer == \E f \in Farmers : UpdateFarmer(f, "high")
DoCreateOrderOfFirstFarmer ==
    \E q \in Quantities, t \in OrderTypes : CreateOrder("f1", q, t, "low", FALSE)
DoCreateKPI == \E data \in KPIData : CreateKPI(data)
DoUpdateKPI == \E id \in KPIIds, data \in KPIData : UpdateKPI(id, data)

(* --------------------------- specifications ---------------------------- *)
\* Every request of the system.
Next ==
    \/ Tick
    \/ DoCreateOrder
    \/ DoApprove
    \/ DoConfirm
    \/ DoPlan
    \/ DoAssignRoute
    \/ DoUpdateStatus
    \/ DoUpdateStatusRead
    \/ DoUpdateStatusSave
    \/ DoUpdateStatusCredit
    \/ DoOrderUpdate
    \/ DoUpdateQuantity
    \/ UpdateQuantityMissing
    \/ DoReceiveSensorData
    \/ DoCreateRoute
    \/ DoActivateRoute
    \/ DoCompleteRoute
    \/ DoCompleteStop
    \/ DoRouteUpdate
    \/ DoStopUpdate
    \/ DoOptimize
    \/ DoCreateRouteAnyFarmer
    \/ DoCreateDelivery
    \/ DoStartDelivery
    \/ DoCompleteDelivery
    \/ DoCreateRecordedDelivery
    \/ DoCompleteMeasuredDelivery
    \/ DoRetrieveDelivery
    \/ DoCreateKPI
    \/ DoUpdateKPI
    \/ DoUpdateFarmer

Spec == Init /\ [][Next]_vars

\* The order endpoints alone, one approver.
NextOrders ==
    \/ DoCreateOrder
    \/ DoApproveAsFirstUser
    \/ DoConfirm
    \/ DoPlan
    \/ DoUpdateStatus

SpecOrders == Init /\ [][NextOrders]_vars

\* Approval and confirmation against the wall clock.
NextApproval ==
    \/ Tick
    \/ DoCreateOrder
    \/ DoApprove
    \/ DoConfirm
    \/ DoPlan

SpecApproval == Init /\ [][NextApproval]_vars

\* Route planning and execution.
NextRoutes ==
    \/ DoCreateOrder
    \/ DoAssignRoute
    \/ DoUpdateStatus
    \/ DoCreateRoute
    \/ DoActivateRoute
    \/ DoCompleteRoute
    \/ DoCompleteStop

SpecRoutes == Init /\ [][NextRoutes]_vars

\* Every request that writes an order's delivery or a storage quantity.
NextStorage ==
    \/ DoCreateOrder
    \/ DoUpdateStatus
    \/ DoOrderUpdate
    \/ DoUpdateQuantity
    \/ UpdateQuantityMissing
    \/ DoCreateRoute
    \/ DoCompleteStop
    \/ DoCreateDelivery
    \/ DoStartDelivery
    \/ DoCompleteDelivery

SpecStorage == Init /\ [][NextStorage]_vars

\* Assignment of orders in any status to routes.
NextAssign ==
    \/ DoCreateOrder
    \/ DoConfirm
    \/ DoDeliver
    \/ DoAssignRoute
    \/ DoCreateEmptyRoute

SpecAssign == Init /\ [][NextAssign]_vars

\* The status of a route under every request that writes it.
NextRouteStatus ==
    \/ DoCreateOrder
    \/ DoCreateRoute
    \/ DoActivateRoute
    \/ DoCompleteRoute
    \/ DoCompleteStop
    \/ DoRouteUpdate

SpecRouteStatus == Init /\ [][NextRouteStatus]_vars

\* Execution of routes over orders of the standard kind.
NextRouteCompletion ==
    \/ DoCreateStandardOrder
    \/ DoCreateRoute
    \/ DoActivateRoute
    \/ DoCompleteRoute
    \/ DoCompleteStop

SpecRouteCompletion == Init /\ [][NextRouteCompletion]_vars

\* The quantities of stops.
NextStops ==
    \/ DoCreateOrder
    \/ DoCreateRoute
    \/ DoCompleteStop
    \/ DoStopUpdate

SpecStops == Init /\ [][NextStops]_vars

\* The numbering of stops.
NextSequencing ==
    \/ DoCreateOrder
    \/ DoCreateRoute
    \/ DoCreateRouteAnyFarmer
    \/ DoOptimize

SpecSequencing == Init /\ [][NextSequencing]_vars

\* Status updates and sensor updates by concurrent workers.
NextConcurrent ==
    \/ DoCreateStandardOrder
    \/ DoUpdateStatusRead
    \/ DoUpdateStatusSave
    \/ DoUpdateStatusCredit
    \/ DoUpdateQuantity

SpecConcurrent == Init /\ [][NextConcurrent]_vars

\* Sensor readings between deliveries.
NextSensor ==
    \/ DoCreateStandardOrder
    \/ DoUpdateStatus
    \/ DoReceiveSensorData

SpecSensor == Init /\ [][NextSensor]_vars

\* The guarded lifecycle requests of orders and routes.
NextLifecycle ==
    \/ DoCreateStandardOrder
    \/ DoApproveAsFirstUser
    \/ DoConfirm
    \/ DoPlan
    \/ DoCreateRoute
    \/ DoActivateRoute
    \/ DoCompleteRoute

SpecLifecycle == Init /\ [][NextLifecycle]_vars

\* Deliveries and the figures read from them.
NextMetrics ==
    \/ DoCreateStandardOrder
    \/ DoCreateEmptyRoute
    \/ DoCreateRecordedDelivery
    \/ DoStartDelivery
    \/ DoCompleteMeasuredDelivery
    \/ DoRetrieveDelivery

SpecMetrics == Init /\ [][NextMetrics]_vars

\* The KPI records and their writers.
NextKPI ==
    \/ DoCreateKPI
    \/ DoUpdateKPI

SpecKPI == Init /\ [][NextKPI]_vars

\* Every request that saves an order, and the farmer's own record.
NextApprovalRule ==
    \/ DoCreateOrderOfFirstFarmer
    \/ DoApproveAsFirstUser
    \/ DoConfirm
    \/ DoPlan
    \/ DoCreateEmptyRoute
    \/ DoAssignRoute
    \/ DoDeliver
    \/ DoPromoteFarmer

SpecApprovalRule == Init /\ [][NextApprovalRule]_vars

(* ------------------------------- claims -------------------------------- *)
\* The order a response is about, before and after the request.
Before == orders[last'.id]
After == orders'[last'.id]

\* C1: every site's storage satisfies 0 <= current_quantity <= capacity in
\* every state reached by order deliveries, stop completions, delivery
\* completions and sensor quantity updates.
C1_StorageWithinCapacity ==
    0 <= current_quantity /\ current_quantity <= Capacity

\* C2: once an order's status is delivered, no operation changes it to
\* anything else.
C2_DeliveredIsTerminal ==
    [][\A id \in OrderIds :
          orders[id].status = "delivered" => orders'[id].status = "delivered"]_vars

\* C3: no order is referenced by stops of two different routes that are
\* both active.
C3_OneActiveRoutePerOrder ==
    \A s, t \in StopIds :
        (stops[s].order = stops[t].order /\ stops[s].route # stops[t].route)
        => ~(routes[stops[s].route].status = "active"
             /\ routes[stops[t].route].status = "active")

\* C4: for a pending order that requires approval, confirm is rejected as
\* long as approve has not been called; after approve succeeds the stored
\* order has requires_approval = false, and a following confirm moves it
\* from pending to confirmed.
C4_ApproveThenConfirm ==
    [][/\ (last'.op = "confirm" /\ Before.status = "pending"
            /\ Before.requires_approval /\ Before.approved_by = "none")
          => (~last'.ok /\ orders' = orders)
       /\ (last'.op = "approve" /\ last'.ok) => ~After.requires_approval
       /\ (last'.op = "confirm" /\ Before.status = "pending"
            /\ Before.approved_by # "none")
          => (last'.ok /\ After.status = "confirmed")]_vars

\* C5: no order whose requires_approval flag is true is ever in status
\* planned or a later status.
C5_NoUnapprovedPlanned ==
    \A id \in OrderIds :
        orders[id].requires_approval
        => orders[id].status \notin {"planned", "in_transit", "delivered"}

\* C6: confirm sets the status to confirmed if and only if the order is
\* pending and requires_approval is false; plan (given a planning week)
\* records the week and sets the status to planned if and only if the order
\* is pending or confirmed and requires_approval is false; a refused call
\* leaves the orders as they were.
C6_ConfirmPlanGuards ==
    [][/\ last'.op = "confirm"
          => /\ last'.ok <=> (Before.status = "pending" /\ ~Before.requires_approval)
             /\ last'.ok => After.status = "confirmed"
             /\ ~last'.ok => orders' = orders
       /\ (last'.op = "plan" /\ last'.arg # "")
          => /\ last'.ok <=> (Before.status \in {"pending", "confirmed"}
                              /\ ~Before.requires_approval)
             /\ last'.ok => (After.status = "planned"
                             /\ After.planning_week = last'.arg)
             /\ ~last'.ok => orders' = orders]_vars

\* C6 witness: a plan call was accepted and the order is planned for the
\* requested week.
C6_Witness ==
    /\ last.op = "plan" /\ last.ok
    /\ orders[last.id].status = "planned"
    /\ orders[last.id].planning_week = last.arg

\* C7: approve on an order whose requires_approval is false is rejected, and
\* a second approve after a successful one changes nothing: approver and
\* approval timestamp stay those of the first approval.
C7_SecondApproveChangesNothing ==
    [][last'.op = "approve"
       => /\ ~Before.requires_approval => ~last'.ok
          /\ Before.approved_by # "none"
             => (After.approved_by = Before.approved_by
                 /\ After.approved_at = Before.approved_at)]_vars

\* C8: creating an order is rejected, and no order is stored, when its
\* quantity is <= 0 or when the site's current_quantity plus the quantity
\* exceeds the site's capacity.
C8_CreateValidated ==
    [][last'.op = "create"
       => /\ last'.n <= 0 => (~last'.ok /\ orders' = orders)
          /\ last'.ok => ~CleanRaises(After)]_vars

\* C9: a created order has requires_approval = true whenever its quantity
\* exceeds the large-order threshold, its type is emergency or its farmer's
\* priority is high; an emergency order is stored with priority urgent.
C9_ApprovalRuleOnCreate ==
    [][(last'.op = "create" /\ last'.ok)
       => /\ (After.quantity > LargeOrderThreshold
              \/ After.order_type = "emergency"
              \/ FarmerPriority(After.farmer) = "high")
             => After.requires_approval
          /\ After.order_type = "emergency" => After.priority = "urgent"
          /\ After.status = "pending"]_vars

\* C9 witness: an emergency order requested with another priority was
\* created and is stored urgent and requiring approval.
C9_Witness ==
    /\ last.op = "create" /\ last.ok
    /\ orders[last.id].order_type = "emergency"
    /\ orders[last.id].priority = "urgent"
    /\ orders[last.id].requires_approval

\* C10: cancel is accepted from every status except delivered, where it is
\* rejected; after a successful cancel the status is cancelled and the
\* assigned_route reference is cleared.
C10_Cancel ==
    [][(last'.op = "update_status" /\ last'.arg = "cancelled")
       => /\ Before.status = "delivered" => (~last'.ok /\ orders' = orders)
          /\ Before.status # "delivered" => last'.ok
          /\ last'.ok => (After.status = "cancelled"
                          /\ After.assigned_route = 0)]_vars

\* C11: assign_to_route never fails: a request naming an existing route sets
\* the order's assigned_route to that route and its status to planned,
\* whatever the order's status and requires_approval flag were.
C11_AssignAlwaysPlans ==
    [][(last'.op = "assign_route" /\ last'.n \in RouteIds)
       => /\ last'.ok
          /\ After.assigned_route = last'.n
          /\ After.status = "planned"]_vars

\* C11 witness: an order that had been delivered and requires approval was
\* assigned to a route and is planned.
C11_Witness ==
    /\ last.op = "assign_route" /\ last.ok
    /\ orders[last.id].status = "planned"
    /\ orders[last.id].assigned_route = last.n
    /\ orders[last.id].requires_approval
    /\ orders[last.id].actual_delivery_date # 0

\* C12: a successful complete on a route stop marks the stop completed, sets
\* the stop's order to delivered with the delivery timestamp, and increases
\* the current_quantity of the order's site by the order's quantity, capped
\* at the site's capacity.
C12_StopFulfillment ==
    [][(last'.op = "complete_stop" /\ last'.ok)
       => LET o == stops[last'.id].order
              sum == current_quantity + orders[o].quantity
          IN /\ stops'[last'.id].is_completed
             /\ orders'[o].status = "delivered"
             /\ orders'[o].actual_delivery_date = now
             /\ HasFeedStorage(orders[o].farmer)
                => current_quantity' = IF sum > Capacity THEN Capacity ELSE sum]_vars

\* C13: whenever the delivered quantity of a stop is set it is not negative
\* (the lower bound of the claim, which does not depend on the overage
\* tolerance).
C13_DeliveredQuantityBounded ==
    \A s \in StopIds :
        stops[s].has_quantity_delivered => 0 <= stops[s].quantity_delivered

\* C14: a route's status changes only along draft -> planned -> active ->
\* completed, with cancelled or delayed reached from active; activate is
\* accepted exactly from draft or planned and complete exactly from active.
C14_RouteStatusMachine ==
    [][/\ \A id \in RouteIds :
            routes'[id].status # routes[id].status
            => <<routes[id].status, routes'[id].status>> \in
                 {<<"draft", "planned">>, <<"draft", "active">>,
                  <<"planned", "active">>, <<"active", "completed">>,
                  <<"active", "cancelled">>, <<"active", "delayed">>}
       /\ last'.op = "activate"
          => (last'.ok <=> routes[last'.id].status \in {"draft", "planned"})
       /\ last'.op = "complete_route"
          => (last'.ok <=> routes[last'.id].status = "active")]_vars

\* C15: complete on a route is accepted only when every stop of the route is
\* already completed.
C15_CompleteNeedsAllStops ==
    [][(last'.op = "complete_route" /\ last'.ok)
       => \A s \in StopIds :
            stops[s].route = last'.id => stops[s].is_completed]_vars

\* C16: when a route is completed while some of its stops were not
\* fulfilled, the route becomes completed and the status of every order is
\* what it was before the completion.
C16_UnfulfilledOrdersKeepStatus ==
    [][(/\ last'.op = "complete_route" /\ last'.ok
        /\ \E s \in StopIds : stops[s].route = last'.id /\ ~stops[s].is_completed)
       => /\ routes'[last'.id].status = "completed"
          /\ \A o \in OrderIds : orders'[o].status = orders[o].status]_vars

\* C16 witness: a route was completed with a stop at which nobody ever
\* arrived, and that stop's order is still pending.
C16_Witness ==
    /\ last.op = "complete_route" /\ last.ok
    /\ routes[last.id].status = "completed"
    /\ \E s \in StopIds :
          /\ stops[s].route = last.id
          /\ stops[s].actual_arrival_time = 0
          /\ orders[stops[s].order].status = "pending"

\* C17: complete on a stop of a cancelled route is rejected and changes
\* nothing, and cancelling a route leaves the storage quantity as it was.
C17_CancelledRouteAdmitsNoStop ==
    [][/\ (last'.op = "complete_stop"
            /\ routes[stops[last'.id].route].status = "cancelled")
          => (~last'.ok /\ stops' = stops /\ orders' = orders
              /\ current_quantity' = current_quantity)
       /\ (last'.op = "update_route" /\ last'.arg = "cancelled")
          => current_quantity' = current_quantity]_vars

\* The sum of the planned quantities of a set of stops.
RECURSIVE PlannedQuantity(_)
PlannedQuantity(S) ==
    IF S = {} THEN 0
    ELSE LET s == CHOOSE t \in S : TRUE
         IN stops[s].quantity_to_deliver + PlannedQuantity(S \ {s})

\* C18: for every route the sum of the planned quantities of its stops does
\* not exceed the vehicle capacity.
C18_RouteWithinVehicleCapacity ==
    \A id \in RouteIds :
        PlannedQuantity({s \in StopIds : stops[s].route = id}) <= VehicleCapacity

C20_OptimizeRenumbers ==
    [][(last'.op = "optimize" /\ last'.n >= 2)
       => LET sorted == SortedByLatitude(RouteStops(last'.id))
          IN /\ last'.ok
             /\ \A i \in 1..Len(sorted) : stops'[sorted[i]].sequence_number = i]_vars

\* C21: no storage mutation is lost under concurrency: the storage write
\* that ends a delivery adds the order's quantity to the quantity persisted
\* at that moment, so the result is that of a serial execution.
C21_NoLostStorageUpdate ==
    [][\A w \in Workers :
          (inflight[w].pc = "credit" /\ inflight'[w].pc = "idle")
          => current_quantity' = current_quantity + inflight[w].order[1].quantity]_vars

\* C22: a transition made on a stale read never overwrites a newer state:
\* when a worker writes an order, either the row is still the one the worker
\* read, or the write is refused and the orders stay as they are.
C22_NoStaleOverwrite ==
    [][\A w \in Workers :
          (inflight[w].pc = "read" /\ inflight'[w].pc # "read")
          => \/ inflight[w].order[1] = orders[inflight[w].id]
             \/ (orders' = orders /\ last'.op = "update_status" /\ ~last'.ok)]_vars

\* C23: sensor updates are last-write-wins by timestamp: a reading whose
\* timestamp is older than that of the reading applied just before it
\* leaves the stored quantity unchanged.
C23_OlderReadingIgnored ==
    [][(/\ last.op = "sensor_data" /\ last.ok
        /\ last'.op = "sensor_data" /\ last'.n < last.n)
       => current_quantity' = current_quantity]_vars

\* C24: a rejected lifecycle operation changes nothing: when confirm, plan
\* or approve on an order, or activate or complete on a route, is refused,
\* the orders, the routes, the stops and the storage are the same as before.
C24_RejectionChangesNothing ==
    [][(/\ last'.op \in {"confirm", "plan", "approve", "activate", "complete_route"}
        /\ ~last'.ok)
       => /\ orders' = orders
          /\ routes' = routes
          /\ stops' = stops
          /\ current_quantity' = current_quantity]_vars

\* C24 witness: activate was refused on a completed route that has a stop,
\* and the route is still completed.
C24_Witness ==
    /\ last.op = "activate" /\ ~last.ok
    /\ routes[last.id].status = "completed"
    /\ \E s \in StopIds : stops[s].route = last.id

\* C25: the km per tonne of a delivery is null when total_quantity_delivered
\* is 0, and is the actual distance divided by total_quantity_delivered
\* when the quantity is positive and the distance is known.
C25_KmPerTonneNullOnZero ==
    [][last'.op = "km_per_tonne"
       => LET d == deliveries[last'.id]
          IN /\ d.total_quantity_delivered = 0 => last'.arg = "null"
             /\ (d.total_quantity_delivered > 0 /\ d.actual_distance_km # 0)
                => (last'.arg = "number"
                    /\ last'.n * d.total_quantity_delivered = d.actual_distance_km)]_vars

\* C26: writing the KPI of a key (metric, period type, period start, period
\* end) twice with the same data leaves the table as the first write left it,
\* and after every write no two records carry the same key.
SameRequestAgain ==
    /\ last.ok
    /\ last'.op = last.op /\ last'.arg = last.arg /\ last'.n = last.n
    /\ (last.op = "update_kpi" => last'.id = last.id)

C27_SecondCompletionRejected ==
    [][(last'.op = "complete_stop" /\ stops[last'.id].is_completed)
       => /\ ~last'.ok
          /\ stops' = stops
          /\ orders' = orders
          /\ current_quantity' = current_quantity]_vars

\* The approval rule of Order.save.
ApprovalRuleHolds(o, priority) ==
    (o.quantity > LargeOrderThreshold \/ o.order_type = "emergency" \/ priority = "high")
    => o.requires_approval

\* C28: in every state every stored order whose quantity is above the
\* threshold, whose type is emergency or whose farmer has priority high has
\* requires_approval = true.
C28_ApprovalRuleInEveryState ==
    \A id \in OrderIds : ApprovalRuleHolds(orders[id], FarmerPriority(orders[id].farmer))

\* C28 amended: the order stored by an accepted create, approve, confirm,
\* plan, route assignment or status update satisfies the approval rule for
\* the farmer's priority at that moment.
C28_ApprovalRuleOnEverySave ==
    [][(/\ last'.op \in {"create", "approve", "confirm", "plan", "assign_route",
                         "update_status"}
        /\ last'.ok)
       => ApprovalRuleHolds(After, FarmerPriority(After.farmer))]_vars

\* C28 witness: an approval was accepted and the stored order requires
\* approval again.
C28_Witness ==
    /\ last.op = "approve" /\ last.ok
    /\ orders[last.id].approved_by # "none"
    /\ orders[last.id].requires_approval

\* The orders of farmers with a storage that a step turns delivered.
BecomeDelivered ==
    {id \in OrderIds : /\ orders[id].status # "delivered"
                       /\ orders'[id].status = "delivered"
                       /\ HasFeedStorage(orders[id].farmer)}

\* The quantity of those among S that were never delivered before.
RECURSIVE CreditDue(_)
CreditDue(S) ==
    IF S = {} THEN 0
    ELSE LET id == CHOOSE x \in S : TRUE
         IN (IF orders[id].actual_delivery_date = 0 THEN orders[id].quantity ELSE 0)
            + CreditDue(S \ {id})

\* C29: a step that turns orders delivered, by a status update, an order
\* update, a stop completion or a delivery completion, adds to the storage
\* the quantity of each order delivered for the first time and nothing for
\* an order that was delivered before.
C29_DeliveredOrderCreditedOnce ==
    [][BecomeDelivered # {}
       => current_quantity' = current_quantity + CreditDue(BecomeDelivered)]_vars

\* C30: the order of every completed stop is delivered, whether the stop was
\* completed by its own request or by the completion of its route.
C30_CompletedStopOrderDelivered ==
    \A s \in StopIds :
        stops[s].is_completed => orders[stops[s].order].status = "delivered"

====
